---- MODULE Spec2Model ----
(***************************************************************************)
(* Model of awwsmm/tic-tac-toe (src/src/game.rs and its collaborators).    *)
(*                                                                         *)
(* Five specifications share the variables:                                *)
(*   Spec       the running application: the engine's frame loop           *)
(*              (StateTransition schedule, then Update schedule), the      *)
(*              splash / menu / game screens and capture_input.            *)
(*   SpecLive   Spec with frames that keep running.                        *)
(*   SpecBoard  the Game value on its own: any sequence of Game::set calls *)
(*              from Game::default(), and generate_computer_input applied  *)
(*              to the boards so obtained.                                 *)
(*   SpecMarks  every assignment of marks to the nine cells.               *)
(*   SpecHit    Cell::hit on its own.                                      *)
(***************************************************************************)
EXTENDS Integers, Sequences, FiniteSets, TLC

VARIABLES
    app_state,               \* State<AppState>
    next_app_state,          \* NextState<AppState>
    game_state,              \* State<GameState>
    next_game_state,         \* NextState<GameState>
    game,                    \* StateInfo.game : game::Game
    current_player,          \* StateInfo.current_player
    computer_thinking_time,  \* StateInfo.computer_thinking_time : Timer
    game_mode,               \* Res<GameMode>
    human_mark,              \* Res<HumanMark>
    difficulty,              \* Res<Difficulty>
    schedule,                \* which schedule of the frame runs next
    last                     \* what the last step did (the program's log line)

vars == <<app_state, next_app_state, game_state, next_game_state, game,
          current_player, computer_thinking_time, game_mode, human_mark,
          difficulty, schedule, last>>

info == <<game, current_player, computer_thinking_time>>

settings == <<game_mode, human_mark, difficulty>>

\* Option::None
None == "None"

(***************************************************************************)
(* Bounds                                                                  *)
(***************************************************************************)

\* time.delta() of a frame is one of 0, 100, ..., 100 * MaxDelta milliseconds
MaxDelta == 2

Deltas == {100 * d : d \in 0..MaxDelta}

\* world coordinates a click can resolve to, on each axis: the centre of
\* each of the three intervals, and the upper edge of the board
ClickCoordinates == {-250, 0, 250, 3 * 125}

(***************************************************************************)
(* Row, Column, Cell, Line, Mark                                           *)
(***************************************************************************)

GRID_SPACING == 250

HALFSIZE == GRID_SPACING \div 2

Rows == <<"Bottom", "Middle", "Top">>

Columns == <<"Left", "Middle", "Right">>

\* position() of the i-th variant of a Dimension enum
Position(i) == CASE i = 1 -> -1 [] i = 2 -> 0 [] i = 3 -> 1

\* range() of the i-th variant of a Dimension enum, as <<min, max>>
Range(i) ==
    CASE i = 1 -> <<-3 * HALFSIZE, -HALFSIZE>>
      [] i = 2 -> <<-HALFSIZE, HALFSIZE>>
      [] i = 3 -> <<HALFSIZE, 3 * HALFSIZE>>

\* in_range with the upper end of the range included
in_range_Closed(i, value) == Range(i)[1] <= value /\ value <= Range(i)[2]

in_range(i, value) == Range(i)[1] <= value /\ value < Range(i)[2]

\* containing(value): the index of the first variant whose range holds value, or 0
containing(value) ==
    IF in_range(1, value) THEN 1
    ELSE IF in_range(2, value) THEN 2
    ELSE IF in_range(3, value) THEN 3
    ELSE 0

\* the place of a variant among the variants of its enum
VariantIndex(seq, name) == IF seq[1] = name THEN 1 ELSE IF seq[2] = name THEN 2 ELSE 3

RowPosition(row) == Position(VariantIndex(Rows, row))

ColumnPosition(column) == Position(VariantIndex(Columns, column))

\* Cell::variants()
CellVariants ==
    <<"TopLeft", "TopMiddle", "TopRight",
      "MiddleLeft", "MiddleMiddle", "MiddleRight",
      "BottomLeft", "BottomMiddle", "BottomRight">>

Cells == {CellVariants[i] : i \in 1..Len(CellVariants)}

CellRow(cell) ==
    CASE cell \in {"TopLeft", "TopMiddle", "TopRight"} -> "Top"
      [] cell \in {"MiddleLeft", "MiddleMiddle", "MiddleRight"} -> "Middle"
      [] cell \in {"BottomLeft", "BottomMiddle", "BottomRight"} -> "Bottom"

CellColumn(cell) ==
    CASE cell \in {"TopLeft", "MiddleLeft", "BottomLeft"} -> "Left"
      [] cell \in {"TopMiddle", "MiddleMiddle", "BottomMiddle"} -> "Middle"
      [] cell \in {"TopRight", "MiddleRight", "BottomRight"} -> "Right"

\* Cell::from(row, column)
CellFrom(row, column) ==
    CASE row = "Bottom" ->
            (CASE column = "Left" -> "BottomLeft"
               [] column = "Middle" -> "BottomMiddle"
               [] column = "Right" -> "BottomRight")
      [] row = "Middle" ->
            (CASE column = "Left" -> "MiddleLeft"
               [] column = "Middle" -> "MiddleMiddle"
               [] column = "Right" -> "MiddleRight")
      [] row = "Top" ->
            (CASE column = "Left" -> "TopLeft"
               [] column = "Middle" -> "TopMiddle"
               [] column = "Right" -> "TopRight")

is_corner(cell) ==
    cell = "TopLeft" \/ cell = "TopRight" \/ cell = "BottomLeft" \/ cell = "BottomRight"

\* hit with the two coordinates exchanged
hit_Transposed(pos) ==
    LET row == containing(pos[1])
        col == containing(pos[2])
    IN  IF row = 0 \/ col = 0 THEN None ELSE CellFrom(Rows[row], Columns[col])

\* Cell::hit(pos), pos = <<x, y>>
hit(pos) ==
    LET row == containing(pos[2])
        col == containing(pos[1])
    IN  IF row = 0 \/ col = 0 THEN None ELSE CellFrom(Rows[row], Columns[col])

\* Line::variants()
LineVariants ==
    <<"BottomRow", "MiddleRow", "TopRow", "LeftColumn", "MiddleColumn",
      "RightColumn", "UpDiagonal", "DownDiagonal">>

Lines == {LineVariants[i] : i \in 1..Len(LineVariants)}

\* Line::cells()
LineCells(line) ==
    CASE line = "BottomRow" -> <<"BottomLeft", "BottomMiddle", "BottomRight">>
      [] line = "MiddleRow" -> <<"MiddleLeft", "MiddleMiddle", "MiddleRight">>
      [] line = "TopRow" -> <<"TopLeft", "TopMiddle", "TopRight">>
      [] line = "LeftColumn" -> <<"TopLeft", "MiddleLeft", "BottomLeft">>
      [] line = "MiddleColumn" -> <<"TopMiddle", "MiddleMiddle", "BottomMiddle">>
      [] line = "RightColumn" -> <<"TopRight", "MiddleRight", "BottomRight">>
      [] line = "UpDiagonal" -> <<"BottomLeft", "MiddleMiddle", "TopRight">>
      [] line = "DownDiagonal" -> <<"TopLeft", "MiddleMiddle", "BottomRight">>

Marks == {"X", "O"}

\* Mark::is(human_mark)
MarkIs(mark, hm) ==
    \/ mark = "X" /\ hm = "HumanX"
    \/ mark = "O" /\ hm = "HumanO"

(***************************************************************************)
(* mod game: Game                                                          *)
(***************************************************************************)

\* Option<(Mark, Line)>::None
NoWinner == <<>>

\* the empty HashMap<Cell, Option<Mark>>; a key, once inserted, holds Some(mark)
EmptyMarks == [c \in {} |-> "X"]

\* Game::default()
GameDefault == [marks |-> EmptyMarks, winner |-> NoWinner, over |-> FALSE]

\* the line each entry of WINNING_ARRANGEMENTS reports
ArrangementLines ==
    <<"TopRow", "MiddleRow", "BottomRow", "LeftColumn", "MiddleColumn",
      "RightColumn", "UpDiagonal", "DownDiagonal">>

\* Arrangement with the signs of the two diagonal filters exchanged
Arrangement_SwappedDiagonals(i, cell) ==
    CASE i = 1 -> CellRow(cell) = "Top"
      [] i = 2 -> CellRow(cell) = "Middle"
      [] i = 3 -> CellRow(cell) = "Bottom"
      [] i = 4 -> CellColumn(cell) = "Left"
      [] i = 5 -> CellColumn(cell) = "Middle"
      [] i = 6 -> CellColumn(cell) = "Right"
      [] i = 7 -> ColumnPosition(CellColumn(cell)) = -RowPosition(CellRow(cell))
      [] i = 8 -> ColumnPosition(CellColumn(cell)) = RowPosition(CellRow(cell))

\* the filter closure of the i-th entry of WINNING_ARRANGEMENTS
Arrangement(i, cell) ==
    CASE i = 1 -> CellRow(cell) = "Top"
      [] i = 2 -> CellRow(cell) = "Middle"
      [] i = 3 -> CellRow(cell) = "Bottom"
      [] i = 4 -> CellColumn(cell) = "Left"
      [] i = 5 -> CellColumn(cell) = "Middle"
      [] i = 6 -> CellColumn(cell) = "Right"
      [] i = 7 -> ColumnPosition(CellColumn(cell)) = RowPosition(CellRow(cell))
      [] i = 8 -> ColumnPosition(CellColumn(cell)) = -RowPosition(CellRow(cell))

\* Complete with the length test dropped
Complete_AnyLength(kept, unique_marks) == Cardinality(unique_marks) = 1

\* `marks.len() == 3 && unique_marks.len() == 1`
Complete(kept, unique_marks) == Cardinality(kept) = 3 /\ Cardinality(unique_marks) = 1

\* one iteration of the loop of determine_winner, from entry i on
RECURSIVE WinnerFrom(_, _)
WinnerFrom(marks, i) ==
    IF i > Len(ArrangementLines) THEN NoWinner
    ELSE LET kept == {c \in DOMAIN marks : Arrangement(i, c)}
             unique_marks == {marks[c] : c \in kept}
         IN  IF Complete(kept, unique_marks)
             THEN <<CHOOSE m \in unique_marks : TRUE, ArrangementLines[i]>>
             ELSE WinnerFrom(marks, i + 1)

\* the values `marks.get(0)` can take over the orders in which the HashMap
\* may iterate: the mark of any of the kept entries
FirstMarks(marks, kept) == {marks[c] : c \in kept}

\* every value the loop of determine_winner can return from entry i on, over
\* the iteration orders of the HashMap
RECURSIVE WinnersFrom(_, _)
WinnersFrom(marks, i) ==
    IF i > Len(ArrangementLines) THEN {NoWinner}
    ELSE LET kept == {c \in DOMAIN marks : Arrangement(i, c)}
             unique_marks == {marks[c] : c \in kept}
         IN  IF Complete(kept, unique_marks)
             THEN {<<m, ArrangementLines[i]>> : m \in FirstMarks(marks, kept)}
             ELSE WinnersFrom(marks, i + 1)

\* determine_winner scanning WINNING_ARRANGEMENTS from its last entry
RECURSIVE WinnerFromLast(_, _)
WinnerFromLast(marks, i) ==
    IF i < 1 THEN NoWinner
    ELSE LET kept == {c \in DOMAIN marks : Arrangement(i, c)}
             unique_marks == {marks[c] : c \in kept}
         IN  IF Complete(kept, unique_marks)
             THEN <<CHOOSE m \in unique_marks : TRUE, ArrangementLines[i]>>
             ELSE WinnerFromLast(marks, i - 1)

determine_winner_LastMatch(marks) == WinnerFromLast(marks, Len(ArrangementLines))

determine_winner(marks) == WinnerFrom(marks, 1)

\* Game::get
Get(g, cell) == IF cell \in DOMAIN g.marks THEN g.marks[cell] ELSE None

\* Insert that writes the mark into every key of the map
Insert_IntoEveryKey(marks, cell, mark) == [c \in (DOMAIN marks) \cup {cell} |-> mark]

\* HashMap::insert
Insert(marks, cell, mark) ==
    [c \in (DOMAIN marks) \cup {cell} |-> IF c = cell THEN mark ELSE marks[c]]

\* GameSet with the winner determined before the mark is inserted
GameSet_StaleWinner(g, cell, mark) ==
    LET marks == Insert(g.marks, cell, mark)
        winner == determine_winner(g.marks)
    IN  [marks |-> marks,
         winner |-> winner,
         over |-> (winner # NoWinner \/ Cardinality(DOMAIN marks) = 9)]

\* GameSet that leaves an occupied cell alone
GameSet_Guarded(g, cell, mark) ==
    IF cell \in DOMAIN g.marks THEN g
    ELSE LET marks == Insert(g.marks, cell, mark)
             winner == determine_winner(marks)
         IN  [marks |-> marks,
              winner |-> winner,
              over |-> (winner # NoWinner \/ Cardinality(DOMAIN marks) = 9)]

\* Game::set
GameSet(g, cell, mark) ==
    LET marks == Insert(g.marks, cell, mark)
        winner == determine_winner(marks)
    IN  [marks |-> marks,
         winner |-> winner,
         over |-> (winner # NoWinner \/ Cardinality(DOMAIN marks) = 9)]

(***************************************************************************)
(* StateInfo and its Timer                                                 *)
(***************************************************************************)

\* Timer::default(): TimerMode::Once, zero duration
TimerDefault == [duration |-> 0, elapsed |-> 0, finished |-> FALSE]

\* Timer::tick, TimerMode::Once
TimerTick(t, delta) ==
    IF t.finished THEN t
    ELSE IF t.elapsed + delta >= t.duration
         THEN [t EXCEPT !.elapsed = t.duration, !.finished = TRUE]
         ELSE [t EXCEPT !.elapsed = t.elapsed + delta]

\* the duration capture_input gives the timer, in milliseconds
ThinkingMillis == 400

\* set_duration(400 ms) followed by reset()
TimerRearm(t) == [duration |-> ThinkingMillis, elapsed |-> 0, finished |-> FALSE]

(***************************************************************************)
(* generate_computer_input                                                 *)
(***************************************************************************)

\* index counting the cells column by column
Index_ColumnMajor(cell) ==
    CASE cell = "TopLeft" -> 1
      [] cell = "MiddleLeft" -> 2
      [] cell = "BottomLeft" -> 3
      [] cell = "TopMiddle" -> 4
      [] cell = "MiddleMiddle" -> 5
      [] cell = "BottomMiddle" -> 6
      [] cell = "TopRight" -> 7
      [] cell = "MiddleRight" -> 8
      [] cell = "BottomRight" -> 9

\* fn index(cell), counted from 1
Index(cell) ==
    CASE cell = "TopLeft" -> 1
      [] cell = "TopMiddle" -> 2
      [] cell = "TopRight" -> 3
      [] cell = "MiddleLeft" -> 4
      [] cell = "MiddleMiddle" -> 5
      [] cell = "MiddleRight" -> 6
      [] cell = "BottomLeft" -> 7
      [] cell = "BottomMiddle" -> 8
      [] cell = "BottomRight" -> 9

\* Scales with Easy weighing like Hard
Scales_EasyAsHard(d) ==
    CASE d = "Easy" -> {1}
      [] d = "Medium" -> {-1, 1}
      [] d = "Hard" -> {1}

\* Scales with a Medium that may also weigh nothing
Scales_MediumMayBeZero(d) ==
    CASE d = "Easy" -> {-1}
      [] d = "Medium" -> {-1, 0, 1}
      [] d = "Hard" -> {1}

\* the values `scale` can take for a difficulty (Medium: thread_rng's choice)
Scales(d) ==
    CASE d = "Easy" -> {-1}
      [] d = "Medium" -> {-1, 1}
      [] d = "Hard" -> {1}

\* line.cells().map(|cell| (cell, game.get(cell)))
cells_and_marks(g, line) ==
    LET cells == LineCells(line)
    IN  <<[cell |-> cells[1], mark |-> Get(g, cells[1])],
          [cell |-> cells[2], mark |-> Get(g, cells[2])],
          [cell |-> cells[3], mark |-> Get(g, cells[3])]>>

\* Case1 without the test that the pair of marks is the computer's
Case1_AnyPair(cm, computer, scale, i) ==
    IF cm[1].mark # None /\ cm[1].mark = cm[2].mark /\ cm[3].mark = None
    THEN (IF Index(cm[3].cell) = i THEN 20 * scale ELSE 0)
    ELSE IF cm[1].mark # None /\ cm[2].mark = None /\ cm[3].mark = cm[1].mark
    THEN (IF Index(cm[2].cell) = i THEN 20 * scale ELSE 0)
    ELSE IF cm[1].mark = None /\ cm[2].mark # None /\ cm[3].mark = cm[2].mark
    THEN (IF Index(cm[1].cell) = i THEN 20 * scale ELSE 0)
    ELSE 0

\* Case1 with a win weighed like a block
Case1_WeighsTen(cm, computer, scale, i) ==
    IF cm[1].mark = computer /\ cm[2].mark = computer /\ cm[3].mark = None
    THEN (IF Index(cm[3].cell) = i THEN 10 * scale ELSE 0)
    ELSE IF cm[1].mark = computer /\ cm[2].mark = None /\ cm[3].mark = computer
    THEN (IF Index(cm[2].cell) = i THEN 10 * scale ELSE 0)
    ELSE IF cm[1].mark = None /\ cm[2].mark = computer /\ cm[3].mark = computer
    THEN (IF Index(cm[1].cell) = i THEN 10 * scale ELSE 0)
    ELSE 0

\* case (1): what the line adds to weights[i]
Case1(cm, computer, scale, i) ==
    IF cm[1].mark # None /\ cm[2].mark # None /\ cm[3].mark = None
       /\ cm[1].mark = cm[2].mark /\ cm[2].mark = computer
    THEN (IF Index(cm[3].cell) = i THEN 20 * scale ELSE 0)
    ELSE IF cm[1].mark # None /\ cm[2].mark = None /\ cm[3].mark # None
            /\ cm[1].mark = cm[3].mark /\ cm[3].mark = computer
    THEN (IF Index(cm[2].cell) = i THEN 20 * scale ELSE 0)
    ELSE IF cm[1].mark = None /\ cm[2].mark # None /\ cm[3].mark # None
            /\ cm[2].mark = cm[3].mark /\ cm[3].mark = computer
    THEN (IF Index(cm[1].cell) = i THEN 20 * scale ELSE 0)
    ELSE 0

\* Case2 that never adds anything
Case2_Skipped(cm, computer, scale, i) == 0

\* case (2)
Case2(cm, computer, scale, i) ==
    IF cm[1].mark # None /\ cm[2].mark # None /\ cm[3].mark = None
       /\ cm[1].mark = cm[2].mark /\ cm[2].mark # computer
    THEN (IF Index(cm[3].cell) = i THEN 10 * scale ELSE 0)
    ELSE IF cm[1].mark # None /\ cm[2].mark = None /\ cm[3].mark # None
            /\ cm[1].mark = cm[3].mark /\ cm[3].mark # computer
    THEN (IF Index(cm[2].cell) = i THEN 10 * scale ELSE 0)
    ELSE IF cm[1].mark = None /\ cm[2].mark # None /\ cm[3].mark # None
            /\ cm[2].mark = cm[3].mark /\ cm[3].mark # computer
    THEN (IF Index(cm[1].cell) = i THEN 10 * scale ELSE 0)
    ELSE 0

\* case (3)
Case3(cm, scale, i) ==
    IF cm[2].mark = None /\ cm[2].cell = "MiddleMiddle"
    THEN (IF Index(cm[2].cell) = i THEN 2 * scale ELSE 0)
    ELSE 0

\* Case4 with its first arm only: nothing is added unless both ends are empty
Case4_BothEndsOnly(cm, scale, i) ==
    IF cm[1].mark = None /\ cm[3].mark = None /\ is_corner(cm[1].cell)
    THEN (IF Index(cm[1].cell) = i THEN 1 * scale ELSE 0)
         + (IF Index(cm[3].cell) = i THEN 1 * scale ELSE 0)
    ELSE 0

\* case (4)
Case4(cm, scale, i) ==
    IF cm[1].mark = None /\ cm[3].mark = None /\ is_corner(cm[1].cell)
    THEN (IF Index(cm[1].cell) = i THEN 1 * scale ELSE 0)
         + (IF Index(cm[3].cell) = i THEN 1 * scale ELSE 0)
    ELSE IF cm[1].mark = None /\ is_corner(cm[1].cell)
    THEN (IF Index(cm[1].cell) = i THEN 1 * scale ELSE 0)
    ELSE IF cm[3].mark = None /\ is_corner(cm[3].cell)
    THEN (IF Index(cm[3].cell) = i THEN 1 * scale ELSE 0)
    ELSE 0

\* what case (3) alone has added to weights[i] after the first n lines of
\* Line::variants()
RECURSIVE Case3After(_, _, _, _)
Case3After(g, scale, i, n) ==
    IF n = 0 THEN 0
    ELSE Case3After(g, scale, i, n - 1)
         + Case3(cells_and_marks(g, LineVariants[n]), scale, i)

\* what case (4) alone has added to weights[i] after the first n lines of
\* Line::variants()
RECURSIVE Case4After(_, _, _, _)
Case4After(g, scale, i, n) ==
    IF n = 0 THEN 0
    ELSE Case4After(g, scale, i, n - 1)
         + Case4(cells_and_marks(g, LineVariants[n]), scale, i)

\* what one pass of the for_each closure adds to weights[i]
LineWeight(g, computer, scale, line, i) ==
    LET cm == cells_and_marks(g, line)
    IN  Case1(cm, computer, scale, i) + Case2(cm, computer, scale, i)
        + Case3(cm, scale, i) + Case4(cm, scale, i)

\* weights[i] after the first n lines of Line::variants()
RECURSIVE WeightAfter(_, _, _, _, _)
WeightAfter(g, computer, scale, i, n) ==
    IF n = 0 THEN 0
    ELSE WeightAfter(g, computer, scale, i, n - 1)
         + LineWeight(g, computer, scale, LineVariants[n], i)

\* every value weights[i] holds from the n-th line of Line::variants() on,
\* after each of the four match statements of each line, when it holds w
\* before that line
RECURSIVE ValuesFrom(_, _, _, _, _, _)
ValuesFrom(g, computer, scale, i, n, w) ==
    IF n > Len(LineVariants) THEN {w}
    ELSE LET cm == cells_and_marks(g, LineVariants[n])
             w1 == w + Case1(cm, computer, scale, i)
             w2 == w1 + Case2(cm, computer, scale, i)
             w3 == w2 + Case3(cm, scale, i)
             w4 == w3 + Case4(cm, scale, i)
         IN  {w, w1, w2, w3, w4} \cup ValuesFrom(g, computer, scale, i, n + 1, w4)

\* the weights array once every line has been scanned
Weights(g, computer, scale) ==
    [i \in 1..9 |-> WeightAfter(g, computer, scale, i, Len(LineVariants))]

\* Candidates without the filter
Candidates_Unfiltered(g) == <<1, 2, 3, 4, 5, 6, 7, 8, 9>>

\* .filter(|(index, _)| game.get(Cell::variants()[*index]).is_none())
Candidates(g) == SelectSeq(<<1, 2, 3, 4, 5, 6, 7, 8, 9>>, LAMBDA i : Get(g, CellVariants[i]) = None)

\* MaxBy keeping the first of equal maxima
RECURSIVE MaxBy_KeepsFirst(_, _, _, _)
MaxBy_KeepsFirst(weights, candidates, k, best) ==
    IF k > Len(candidates) THEN best
    ELSE MaxBy_KeepsFirst(weights, candidates, k + 1,
               IF weights[best] >= weights[candidates[k]] THEN best ELSE candidates[k])

\* Iterator::max_by: of equally maximum elements the last is returned
RECURSIVE MaxBy(_, _, _, _)
MaxBy(weights, candidates, k, best) ==
    IF k > Len(candidates) THEN best
    ELSE MaxBy(weights, candidates, k + 1,
               IF weights[best] > weights[candidates[k]] THEN best ELSE candidates[k])

\* the value expect("unable to find max weight") panics on
Panic == "Panic"

\* the chosen cell, for the scale the difficulty gave
generate_computer_input(g, computer, scale) ==
    LET weights == Weights(g, computer, scale)
        candidates == Candidates(g)
    IN  IF Len(candidates) = 0 THEN Panic
        ELSE CellVariants[MaxBy(weights, candidates, 2, candidates[1])]

(***************************************************************************)
(* The application: state, Init, the two schedules of a frame              *)
(***************************************************************************)

AppStates == {"Splash", "Menu", "Game"}

GameStates == {"GameNotInProgress", "XTurn", "OTurn", "GameOver"}

\* the click of a step that read none, or whose click made no mark
NoClick == <<>>

\* what a step that is not capture_input logs
Log(sys) ==
    [sys |-> sys, cell |-> None, mark |-> None, by |-> None, outcome |-> None,
     click |-> NoClick]

Init ==
    /\ app_state = "Splash"
    /\ next_app_state = None
    /\ game_state = "GameNotInProgress"
    /\ next_game_state = None
    /\ game = GameDefault
    /\ current_player = "X"
    /\ computer_thinking_time = TimerDefault
    /\ game_mode = "TwoPlayers"
    /\ human_mark = "HumanX"
    /\ difficulty = "Hard"
    /\ schedule = "Update"
    /\ last = Log("Startup")

\* the states and StateInfo fields a state transition reads and writes
TransitionView ==
    [app_state |-> app_state, next_app_state |-> next_app_state,
     game_state |-> game_state, next_game_state |-> next_game_state,
     current_player |-> current_player]

\* start_game asking for OTurn
start_game_AsksOTurn(s) == [s EXCEPT !.next_game_state = "OTurn"]

\* OnEnter(AppState::Game): start_game
start_game(s) == [s EXCEPT !.next_game_state = "XTurn"]

\* apply_state_transition::<AppState> with its OnEnter systems
ApplyAppTransition(s) ==
    IF s.next_app_state = None THEN s
    ELSE LET entered == s.next_app_state
             taken == [s EXCEPT !.next_app_state = None]
         IN  IF s.app_state = entered THEN taken
             ELSE LET moved == [taken EXCEPT !.app_state = entered]
                  IN  IF entered = "Game" THEN start_game(moved) ELSE moved

\* OnEnterGameState whose start_o_turn sets Mark::X
OnEnterGameState_StartOAsX(s, entered) ==
    CASE entered = "XTurn" -> [s EXCEPT !.current_player = "X"]
      [] entered = "OTurn" -> [s EXCEPT !.current_player = "X"]
      [] OTHER -> s

\* OnEnter(GameState::XTurn): start_x_turn; OnEnter(GameState::OTurn): start_o_turn
OnEnterGameState(s, entered) ==
    CASE entered = "XTurn" -> [s EXCEPT !.current_player = "X"]
      [] entered = "OTurn" -> [s EXCEPT !.current_player = "O"]
      [] OTHER -> s

\* game_over that announces a tie whatever the winner
game_over_AlwaysTie(g) == "It's a tie!"

\* OnEnter(GameState::GameOver): game_over, as the text it puts on the overlay
game_over(g) ==
    IF g.winner = NoWinner THEN "It's a tie!"
    ELSE IF g.winner[1] = "X" THEN "X wins!"
    ELSE "O wins!"

\* apply_state_transition::<GameState> with its OnEnter systems
ApplyGameTransition(s) ==
    IF s.next_game_state = None THEN s
    ELSE LET entered == s.next_game_state
             taken == [s EXCEPT !.next_game_state = None]
         IN  IF s.game_state = entered THEN taken
             ELSE OnEnterGameState([taken EXCEPT !.game_state = entered], entered)

\* The StateTransition schedule of a frame. The two apply_state_transition
\* systems are not ordered against each other: either may run first.
StateTransition ==
    /\ schedule = "StateTransition"
    /\ \E app_first \in BOOLEAN :
         LET s == IF app_first
                  THEN ApplyGameTransition(ApplyAppTransition(TransitionView))
                  ELSE ApplyAppTransition(ApplyGameTransition(TransitionView))
         IN  /\ app_state' = s.app_state
             /\ next_app_state' = s.next_app_state
             /\ game_state' = s.game_state
             /\ next_game_state' = s.next_game_state
             /\ current_player' = s.current_player
             /\ last' = [Log("StateTransition") EXCEPT
                           !.outcome = IF s.game_state = "GameOver"
                                          /\ game_state # "GameOver"
                                       THEN game_over(game) ELSE None]
    /\ schedule' = "Update"
    /\ UNCHANGED <<game, computer_thinking_time, settings>>

\* splash.rs start: a button of the splash screen is pressed
SplashStart ==
    /\ schedule = "Update"
    /\ app_state = "Splash"
    /\ next_app_state' = "Game"
    /\ schedule' = "StateTransition"
    /\ last' = Log("splash::start")
    /\ UNCHANGED <<app_state, game_state, next_game_state, info, settings>>

\* menu.rs update_mark: a "Human X" / "Human O" button is pressed
MenuUpdateMark(new_mark) ==
    /\ schedule = "Update"
    /\ app_state = "Menu"
    /\ human_mark' = new_mark
    /\ schedule' = "StateTransition"
    /\ last' = Log("menu::update_mark")
    /\ UNCHANGED <<app_state, next_app_state, game_state, next_game_state, info,
                   game_mode, difficulty>>

\* update_difficulty that also asks for AppState::Game
MenuUpdateDifficulty_StartsGame(new_difficulty) ==
    /\ schedule = "Update"
    /\ app_state = "Menu"
    /\ difficulty' = new_difficulty
    /\ next_app_state' = "Game"
    /\ schedule' = "StateTransition"
    /\ last' = Log("menu::update_difficulty")
    /\ UNCHANGED <<app_state, game_state, next_game_state, info,
                   game_mode, human_mark>>

\* menu.rs update_difficulty: a difficulty button is pressed
MenuUpdateDifficulty(new_difficulty) ==
    /\ schedule = "Update"
    /\ app_state = "Menu"
    /\ difficulty' = new_difficulty
    /\ schedule' = "StateTransition"
    /\ last' = Log("menu::update_difficulty")
    /\ UNCHANGED <<app_state, next_app_state, game_state, next_game_state, info,
                   game_mode, human_mark>>

\* menu.rs start: the "One Player" / "Two Players" button is pressed
MenuStart(mode) ==
    /\ schedule = "Update"
    /\ app_state = "Menu"
    /\ game_mode' = mode
    /\ next_app_state' = "Game"
    /\ schedule' = "StateTransition"
    /\ last' = Log("menu::start")
    /\ UNCHANGED <<app_state, game_state, next_game_state, info, human_mark, difficulty>>

\* game_over_buttons that also puts the difficulty back to Easy
game_over_buttons_ResetsDifficulty(button) ==
    /\ schedule = "Update"
    /\ game_state = "GameOver"
    /\ game' = GameDefault
    /\ current_player' = "X"
    /\ computer_thinking_time' = TimerDefault
    /\ IF button = "PlayAgain"
       THEN /\ next_game_state' = "XTurn"
            /\ UNCHANGED next_app_state
       ELSE /\ next_game_state' = "GameNotInProgress"
            /\ next_app_state' = "Menu"
    /\ schedule' = "StateTransition"
    /\ last' = Log("game_over_buttons")
    /\ difficulty' = "Easy"
    /\ UNCHANGED <<app_state, game_state, game_mode, human_mark>>

\* game_over_buttons whose "play again" arm does not reset StateInfo
game_over_buttons_KeepInfo(button) ==
    /\ schedule = "Update"
    /\ game_state = "GameOver"
    /\ IF button = "PlayAgain"
       THEN /\ next_game_state' = "XTurn"
            /\ UNCHANGED <<next_app_state, info>>
       ELSE /\ game' = GameDefault
            /\ current_player' = "X"
            /\ computer_thinking_time' = TimerDefault
            /\ next_game_state' = "GameNotInProgress"
            /\ next_app_state' = "Menu"
    /\ schedule' = "StateTransition"
    /\ last' = Log("game_over_buttons")
    /\ UNCHANGED <<app_state, game_state, settings>>

\* game_over_buttons: "play again" or "back to menu" is pressed
game_over_buttons(button) ==
    /\ schedule = "Update"
    /\ game_state = "GameOver"
    /\ game' = GameDefault
    /\ current_player' = "X"
    /\ computer_thinking_time' = TimerDefault
    /\ IF button = "PlayAgain"
       THEN /\ next_game_state' = "XTurn"
            /\ UNCHANGED next_app_state
       ELSE /\ next_game_state' = "GameNotInProgress"
            /\ next_app_state' = "Menu"
    /\ schedule' = "StateTransition"
    /\ last' = Log("game_over_buttons")
    /\ UNCHANGED <<app_state, game_state, settings>>

\* an Update schedule in which no button is pressed and capture_input does not run
IdleUpdate ==
    /\ schedule = "Update"
    /\ game_state \notin {"XTurn", "OTurn"}
    /\ schedule' = "StateTransition"
    /\ last' = Log("Update")
    /\ UNCHANGED <<app_state, next_app_state, game_state, next_game_state, info, settings>>

(***************************************************************************)
(* capture_input                                                           *)
(***************************************************************************)

\* what capture_user_input can see in a frame: no press, or a press at a position
ClickInputs == {None} \cup (ClickCoordinates \X ClickCoordinates)

\* capture_user_input: the pressed position, if any, through Cell::hit
capture_user_input(click) == IF click = None THEN None ELSE hit(click)

\* CellIsFree that takes every cell for free
CellIsFree_Always(g, cell) == TRUE

\* `match info.game.get(cell)`: the None arm
CellIsFree(g, cell) == Get(g, cell) = None

\* the panics of unreachable!() and expect()
Unreachable == "Unreachable"

\* AdvanceTurn that leaves the turn where it is
AdvanceTurn_SameTurn(state) ==
    CASE state = "XTurn" -> "XTurn"
      [] state = "OTurn" -> "OTurn"
      [] OTHER -> Unreachable

\* `match *current_game_state.get()` of a game that is not over
AdvanceTurn(state) ==
    CASE state = "XTurn" -> "OTurn"
      [] state = "OTurn" -> "XTurn"
      [] OTHER -> Unreachable

\* NextAfterMove that never looks at over()
NextAfterMove_KeepPlaying(g, state) == AdvanceTurn(state)

\* the state capture_input asks for after a mark was made
NextAfterMove(g, state) == IF g.over THEN "GameOver" ELSE AdvanceTurn(state)

\* ComputerMoves without the negation of Mark::is
ComputerMoves_OnHumanMark(mode, mark, hm) == mode = "OnePlayer" /\ MarkIs(mark, hm)

\* `GameMode::OnePlayer if !mark.is(*human_mark)`
ComputerMoves(mode, mark, hm) == mode = "OnePlayer" /\ ~MarkIs(mark, hm)

\* the inputs a frame offers capture_input: <<click, time.delta(), scale>>
FrameInputs(computer) ==
    IF computer
    THEN {None} \X Deltas \X Scales(difficulty)
    ELSE ClickInputs \X {0} \X {1}

\* capture_input with its run conditions dropped
RunsCaptureInput_InAnyState(state) == TRUE

\* `capture_input.run_if(in_state(GameState::XTurn))` and the same for OTurn
RunsCaptureInput(state) == state \in {"XTurn", "OTurn"}

capture_input ==
    /\ schedule = "Update"
    /\ RunsCaptureInput(game_state)
    /\ schedule' = "StateTransition"
    /\ UNCHANGED <<app_state, next_app_state, game_state, current_player, settings>>
    /\ LET mark == current_player
           computer == ComputerMoves(game_mode, mark, human_mark)
           by == IF computer THEN "computer" ELSE "human"
       IN  IF game.over
           THEN /\ last' = [sys |-> "capture_input", cell |-> None, mark |-> mark,
                            by |-> by, outcome |-> "over", click |-> NoClick]
                /\ UNCHANGED <<game, computer_thinking_time, next_game_state>>
           ELSE \E input \in FrameInputs(computer) :
                  LET ticked == TimerTick(computer_thinking_time, input[2])
                  IN  /\ computer_thinking_time' =
                            IF computer THEN ticked ELSE TimerRearm(computer_thinking_time)
                      /\ \E maybe_cell \in
                              {IF computer
                               THEN (IF ticked.finished
                                     THEN generate_computer_input(game, mark, input[3])
                                     ELSE None)
                               ELSE capture_user_input(input[1])} :
                           IF maybe_cell \in Cells /\ CellIsFree(game, maybe_cell)
                           THEN \E after \in {GameSet(game, maybe_cell, mark)} :
                                  \E asked \in {NextAfterMove(after, game_state)} :
                                    IF asked = Unreachable
                                    THEN /\ last' = [sys |-> "capture_input", cell |-> None,
                                                     mark |-> mark, by |-> by,
                                                     outcome |-> "unreachable",
                                                     click |-> NoClick]
                                         /\ UNCHANGED <<game, next_game_state>>
                                    ELSE /\ game' = after
                                         /\ next_game_state' = asked
                                         /\ last' = [sys |-> "capture_input",
                                                     cell |-> maybe_cell,
                                                     mark |-> mark, by |-> by,
                                                     outcome |->
                                                       IF Get(game, maybe_cell) = None
                                                       THEN "accepted" ELSE "occupied",
                                                     click |-> IF computer THEN NoClick ELSE input[1]]
                           ELSE /\ UNCHANGED <<game, next_game_state>>
                                /\ last' = [sys |-> "capture_input", cell |-> None,
                                            mark |-> mark, by |-> by,
                                            outcome |->
                                              IF maybe_cell = Panic THEN "panic"
                                              ELSE IF maybe_cell # None THEN "occupied"
                                              ELSE IF computer THEN "thinking"
                                              ELSE "no_cell",
                                            click |-> NoClick]

Next ==
    \/ StateTransition
    \/ SplashStart
    \/ \E new_mark \in {"HumanX", "HumanO"} : MenuUpdateMark(new_mark)
    \/ \E new_difficulty \in {"Easy", "Medium", "Hard"} : MenuUpdateDifficulty(new_difficulty)
    \/ \E mode \in {"OnePlayer", "TwoPlayers"} : MenuStart(mode)
    \/ capture_input
    \/ \E button \in {"PlayAgain", "BackToMenu"} : game_over_buttons(button)
    \/ IdleUpdate

Spec == Init /\ [][Next]_vars

\* The application with frames that keep running: once the Update schedule
\* of a frame has run, the StateTransition schedule of the next frame runs.
SpecLive == Init /\ [][Next]_vars /\ WF_vars(StateTransition)

(***************************************************************************)
(* The Game value on its own                                               *)
(***************************************************************************)

InitBoard == Init

\* Game::set called with any cell and any mark. The log tells a mark on an empty
\* cell ("accepted") from the same mark again ("same") and the other mark on an
\* occupied cell ("other").
BoardSet(cell, mark) ==
    /\ last.sys # "generate_computer_input"
    /\ game' = GameSet(game, cell, mark)
    /\ last' = [sys |-> "Game::set", cell |-> None, mark |-> None, by |-> None,
                outcome |-> IF Get(game, cell) = None THEN "accepted"
                            ELSE IF Get(game, cell) = mark THEN "same"
                            ELSE "other",
                click |-> NoClick]
    /\ UNCHANGED <<app_state, next_app_state, game_state, next_game_state,
                   current_player, computer_thinking_time, settings, schedule>>

\* generate_computer_input applied to a game that is not over, as the last
\* accepted mark left it. The function only reads the game, so a behaviour
\* ends with its result: the game can be continued from the state before.
BoardChoose(computer, d, scale) ==
    /\ ~game.over
    /\ last.sys = "Startup" \/ (last.sys = "Game::set" /\ last.outcome = "accepted")
    /\ last' = [sys |-> "generate_computer_input",
                cell |-> generate_computer_input(game, computer, scale),
                mark |-> computer, by |-> d, outcome |-> scale, click |-> NoClick]
    /\ UNCHANGED <<app_state, next_app_state, game_state, next_game_state, game,
                   current_player, computer_thinking_time, settings, schedule>>

NextBoard ==
    \/ \E cell \in Cells, mark \in Marks : BoardSet(cell, mark)
    \/ \E computer \in Marks, d \in {"Easy", "Medium", "Hard"} :
         \E scale \in Scales(d) : BoardChoose(computer, d, scale)

SpecBoard == InitBoard /\ [][NextBoard]_vars

\* Game::set called with a mark for a cell that is empty
PlaceMark(cell, mark) ==
    /\ Get(game, cell) = None
    /\ BoardSet(cell, mark)

NextMarks == \E cell \in Cells, mark \in Marks : PlaceMark(cell, mark)

\* every assignment of marks to the nine cells, built one mark at a time,
\* whether or not a game could have led to it
SpecMarks == InitBoard /\ [][NextMarks]_vars

(***************************************************************************)
(* Cell::hit on its own                                                    *)
(***************************************************************************)

\* positions are tried up to MaxOffset units to either side of every centre
\* and every edge of the three intervals
MaxOffset == 2

\* the coordinates tried on each axis: around -375, -250, -125, 0, 125, 250, 375
HitCoordinates ==
    {p * GRID_SPACING + e * HALFSIZE + d :
        p \in {-1, 0, 1}, e \in {-1, 0, 1}, d \in (-MaxOffset)..MaxOffset}

InitHit == Init

\* Cell::hit applied to a position; the log keeps the position and the result
HitAt(pos) ==
    /\ last' = [sys |-> "Cell::hit", cell |-> hit(pos), mark |-> None, by |-> None,
                outcome |-> pos, click |-> NoClick]
    /\ UNCHANGED <<app_state, next_app_state, game_state, next_game_state, info,
                   settings, schedule>>

NextHit == \E x \in HitCoordinates, y \in HitCoordinates : HitAt(<<x, y>>)

SpecHit == InitHit /\ [][NextHit]_vars

(***************************************************************************)
(* Properties                                                              *)
(***************************************************************************)

OccupiedCount(g) == Cardinality({c \in Cells : Get(g, c) # None})

CountOf(g, mark) == Cardinality({c \in Cells : Get(g, c) = mark})

\* the mark a legal game places next: X first, then alternately
ExpectedMark(g) == IF CountOf(g, "X") = CountOf(g, "O") THEN "X" ELSE "O"

\* the board with `mark` on exactly the cells of `line`
LineBoard(line, mark) ==
    [c \in {LineCells(line)[k] : k \in 1..3} |-> mark]

\* no line holds three identical marks
NoCompleteLine(g) ==
    \A line \in Lines : \A mark \in Marks :
        \E k \in 1..3 : Get(g, LineCells(line)[k]) # mark

TurnStateOf(mark) == IF mark = "X" THEN "XTurn" ELSE "OTurn"

OtherMark(mark) == IF mark = "X" THEN "O" ELSE "X"

\* a step of capture_input that made a mark
AcceptedMove == last'.sys = "capture_input" /\ game' # game

\* C1: a cell that holds a mark keeps that mark in every step, except in the
\* step of game_over_buttons that resets the board to empty.
C1_WriteOnce ==
    [][\/ \A c \in Cells : Get(game, c) # None => Get(game', c) = Get(game, c)
       \/ last'.sys = "game_over_buttons" /\ game' = GameDefault]_vars

\* a click of X on an occupied cell was turned down on a board of three marks or more
C1_Witness ==
    /\ last.sys = "capture_input" /\ last.outcome = "occupied" /\ last.mark = "X"
    /\ OccupiedCount(game) >= 3

\* C2: after any sequence of Game::set calls the stored winner is
\* determine_winner of the current marks and the stored over flag is
\* (winner is Some or nine cells are occupied).
C2_NeverStale ==
    /\ game.winner = determine_winner(game.marks)
    /\ game.over = (game.winner # NoWinner \/ OccupiedCount(game) = 9)

\* a set call completed a line on a board that is not full
C2_Witness ==
    /\ last.sys = "Game::set"
    /\ game.winner # NoWinner
    /\ OccupiedCount(game) < 9

\* C3: a board with M on exactly the three cells of line L and nothing else
\* has winner (M, L) and is over, for each of the 8 lines and both marks.
C3_LineWins ==
    \A line \in Lines : \A mark \in Marks :
        game.marks = LineBoard(line, mark) =>
            game.winner = <<mark, line>> /\ game.over

\* the board holds O on exactly the cells of UpDiagonal
C3_Witness == last.sys = "Game::set" /\ game.marks = LineBoard("UpDiagonal", "O")

\* C4: on a board where no line holds three identical marks there is no winner,
\* and the game is over exactly when all nine cells are occupied.
C4_NoLineNoWinner ==
    NoCompleteLine(game) =>
        /\ game.winner = NoWinner
        /\ game.over <=> (OccupiedCount(game) = 9)

\* a full board without a completed line: a tie
C4_Witness ==
    /\ last.sys = "Game::set"
    /\ NoCompleteLine(game)
    /\ OccupiedCount(game) = 9
    /\ game.over

\* C5: the marks made in a session alternate X, O, X, ... starting with X; the
\* state asked for after a mark that does not end the game is the other
\* player's turn, and in a turn state the current player is the mark of that
\* turn; GameOver is asked for only when the game is over.
C5_StepAlternates ==
    AcceptedMove =>
        /\ \E c \in Cells \ DOMAIN game.marks :
               game'.marks = Insert(game.marks, c, ExpectedMark(game))
        /\ ~game'.over => next_game_state' = TurnStateOf(ExpectedMark(game'))
        /\ next_game_state' = "GameOver" => game'.over

C5_TurnMatches ==
    game_state \in {"XTurn", "OTurn"} =>
        /\ game_state = TurnStateOf(current_player)
        /\ ~game.over /\ next_game_state = None => current_player = ExpectedMark(game)

C5_TurnAlternation == [][C5_StepAlternates]_vars /\ []C5_TurnMatches

\* O's second mark was made: X, O, X, O in a row
C5_Witness ==
    /\ last.sys = "capture_input" /\ last.outcome = "accepted" /\ last.mark = "O"
    /\ CountOf(game, "X") = 2 /\ CountOf(game, "O") = 2
    /\ next_game_state = "XTurn"

\* C6: after a mark is made in XTurn or OTurn the state asked for is GameOver
\* if and only if the game is then over, and else the other turn state; the
\* next StateTransition enters the state asked for; GameOver is entered only
\* so.
C6_Step ==
    /\ AcceptedMove =>
          /\ game_state \in {"XTurn", "OTurn"}
          /\ next_game_state' =
                IF game'.over THEN "GameOver"
                ELSE IF game_state = "XTurn" THEN "OTurn" ELSE "XTurn"
    /\ (last.sys = "capture_input" /\ next_game_state # None) =>
          game_state' = next_game_state
    /\ (next_game_state' = "GameOver" /\ next_game_state # "GameOver") => AcceptedMove
    /\ (game_state' = "GameOver" /\ game_state # "GameOver") =>
          /\ game_state \in {"XTurn", "OTurn"}
          /\ last.sys = "capture_input" /\ last.outcome = "accepted"
          /\ game.over

C6_AfterMove == [][C6_Step]_vars

\* GameOver was entered after a move that filled the board without a line
C6_Witness ==
    /\ game_state = "GameOver"
    /\ last.sys = "StateTransition"
    /\ game.over /\ game.winner = NoWinner

\* C7: in GameOver only game_over_buttons changes the board; GameOver is left
\* only for XTurn (play again) or for GameNotInProgress with the application
\* in Menu (back to menu), and in both cases with the board empty, no winner,
\* over false and current player X.
C7_Step ==
    game_state = "GameOver" =>
        /\ last'.sys # "capture_input"
        /\ game' # game => last'.sys = "game_over_buttons"
        /\ last'.sys = "game_over_buttons" =>
              /\ game' = GameDefault /\ current_player' = "X"
              /\ \/ next_game_state' = "XTurn" /\ next_app_state' = None
                 \/ next_game_state' = "GameNotInProgress" /\ next_app_state' = "Menu"
        /\ game_state' # "GameOver" =>
              /\ \/ game_state' = "XTurn" /\ app_state' = "Game"
                 \/ game_state' = "GameNotInProgress" /\ app_state' = "Menu"
              /\ game' = GameDefault
              /\ current_player' = "X"

C7_GameOver == [][C7_Step]_vars

\* "play again" was just pressed: the board is reset, GameOver not yet left
C7_Witness ==
    /\ last.sys = "game_over_buttons"
    /\ game_state = "GameOver" /\ next_game_state = "XTurn"
    /\ game = GameDefault /\ current_player = "X"

\* C8: a step of capture_input whose click resolves to an occupied cell or to
\* no cell changes none of marks, winner, over, current player, game state and
\* pending next state.
C8_RejectedNoOp ==
    [][(last'.sys = "capture_input" /\ last'.outcome \in {"occupied", "no_cell"})
          => UNCHANGED <<game, current_player, game_state, next_game_state>>]_vars

\* O's click was turned down because the cell was occupied
C8_Witness ==
    /\ last.sys = "capture_input" /\ last.outcome = "occupied" /\ last.mark = "O"
    /\ next_game_state = None /\ game_state = "OTurn"

\* C9 as stated: Game::set on an occupied cell, with either mark, changes
\* neither the marks nor winner nor over.
C9_SetOccupiedNoOp ==
    [][(last'.sys = "Game::set" /\ last'.outcome \in {"same", "other"})
          => game' = game]_vars

\* C9 as amended: Game::set on an occupied cell changes nothing when the mark is
\* the one the cell holds; with the other mark it overwrites that cell alone,
\* and winner and over are those of the new marks.
C9_SetOccupied ==
    [][/\ (last'.sys = "Game::set" /\ last'.outcome = "same") => game' = game
       /\ (last'.sys = "Game::set" /\ last'.outcome = "other") =>
             /\ \E c \in DOMAIN game.marks :
                    game'.marks = [game.marks EXCEPT ![c] = OtherMark(game.marks[c])]
             /\ game'.winner = determine_winner(game'.marks)
             /\ game'.over = (game'.winner # NoWinner \/ OccupiedCount(game') = 9)]_vars

\* an occupied cell was set to the other mark, and that changed the winner
C9_Witness ==
    /\ last.sys = "Game::set" /\ last.outcome = "other"
    /\ game.winner # NoWinner

\* C10: on a game that is not over generate_computer_input returns, for either
\* computer mark and every scale a difficulty can give, a cell that is empty.
C10_ChoosesEmpty ==
    last.sys = "generate_computer_input" =>
        /\ last.cell \in Cells
        /\ Get(game, last.cell) = None

\* the selector was applied on Easy to a board with a single empty cell
C10_Witness ==
    /\ last.sys = "generate_computer_input" /\ last.by = "Easy"
    /\ OccupiedCount(game) = 8
    /\ last.cell \in Cells

\* in the application no move of the computer is turned down and no step panics
ComputerNeverRejected ==
    last.sys = "capture_input" =>
        /\ last.outcome \notin {"panic", "unreachable"}
        /\ last.by = "computer" => last.outcome \in {"thinking", "accepted"}

\* the empty cell `c` lies on a line whose other two cells hold `mark`
CompletesTwo(g, mark, c) ==
    /\ Get(g, c) = None
    /\ \E line \in Lines :
          /\ \E k \in 1..3 : LineCells(line)[k] = c
          /\ \A k \in 1..3 :
                LineCells(line)[k] # c => Get(g, LineCells(line)[k]) = mark

\* the number of lines through the empty cell `c` whose other two cells hold `mark`
LinesOfTwo(g, mark, c) ==
    Cardinality({line \in Lines :
                   /\ \E k \in 1..3 : LineCells(line)[k] = c
                   /\ \A k \in 1..3 :
                         LineCells(line)[k] # c => Get(g, LineCells(line)[k]) = mark})

\* the selector ran on Hard
ChoseOnHard == last.sys = "generate_computer_input" /\ last.by = "Hard"

\* the board [X,X,_, _,O,_, _,_,_]
BoardTwoXOnTop == [TopLeft |-> "X", TopMiddle |-> "X", MiddleMiddle |-> "O"]

\* on Hard, when some empty cell completes a line of two computer marks, the
\* returned cell completes such a line
C11_HardAlwaysWins ==
    (ChoseOnHard /\ \E c \in Cells : CompletesTwo(game, last.mark, c))
        => CompletesTwo(game, last.mark, last.cell)

\* C11: on Hard, on every board that is not over and has an empty cell
\* completing a line of two computer marks, the returned cell completes such a
\* line; on [X,X,_, _,O,_, _,_,_] with computer X it is TopRight.
C11_HardWins ==
    /\ C11_HardAlwaysWins
    /\ (ChoseOnHard /\ last.mark = "X" /\ game.marks = BoardTwoXOnTop)
          => last.cell = "TopRight"

\* Hard took the win on a board where a different cell blocks the
\* opponent's line of two
C11_Witness ==
    /\ ChoseOnHard
    /\ CompletesTwo(game, last.mark, last.cell)
    /\ \E c \in Cells : c # last.cell /\ CompletesTwo(game, OtherMark(last.mark), c)

\* the board [O,O,_, X,_,_, _,_,_]
BoardTwoOOnTop == [TopLeft |-> "O", TopMiddle |-> "O", MiddleLeft |-> "X"]

\* C12: on Hard, on every board that is not over where no empty cell completes
\* a line of two computer marks but some empty cell completes a line of two
\* opponent marks, the returned cell is such a blocking cell; on
\* [O,O,_, X,_,_, _,_,_] with computer X it is TopRight.
C12_HardBlocks ==
    /\ (/\ ChoseOnHard
        /\ \A c \in Cells : ~CompletesTwo(game, last.mark, c)
        /\ \E c \in Cells : CompletesTwo(game, OtherMark(last.mark), c))
          => CompletesTwo(game, OtherMark(last.mark), last.cell)
    /\ (ChoseOnHard /\ last.mark = "X" /\ game.marks = BoardTwoOOnTop)
          => last.cell = "TopRight"

\* Hard blocked on an edge cell while the centre and a corner were empty
C12_Witness ==
    /\ ChoseOnHard
    /\ \A c \in Cells : ~CompletesTwo(game, last.mark, c)
    /\ CompletesTwo(game, OtherMark(last.mark), last.cell)
    /\ ~is_corner(last.cell) /\ last.cell # "MiddleMiddle"
    /\ Get(game, "MiddleMiddle") = None
    /\ \E c \in Cells : is_corner(c) /\ Get(game, c) = None

\* the weights the selector computed for its last call
ChosenWeights == Weights(game, last.mark, last.outcome)

\* under weights `w` the returned cell is empty and no empty cell weighs more
ChosenIsMaximal(w) ==
    /\ last.cell \in Cells /\ Get(game, last.cell) = None
    /\ \A c \in Cells :
          Get(game, c) = None => w[Index(c)] <= w[Index(last.cell)]

\* the empty cells that weigh as much as the returned one under weights `w`
MaximaUnder(w) ==
    {c \in Cells : Get(game, c) = None /\ w[Index(c)] = w[Index(last.cell)]}

Maxima == MaximaUnder(ChosenWeights)

\* C13 as stated: among the empty cells of maximum weight the selector
\* returns the one that comes first in TopLeft, TopMiddle, ..., BottomRight.
C13_FirstOfMaxima ==
    last.sys = "generate_computer_input" =>
        \A w \in {ChosenWeights} :
            /\ ChosenIsMaximal(w)
            /\ \A c \in MaximaUnder(w) : Index(last.cell) <= Index(c)

\* C13 as amended: among the empty cells of maximum weight the selector
\* returns the one that comes last in TopLeft, TopMiddle, ..., BottomRight
\* (index 1 to 9), for every board, computer mark and scale.
C13_LastOfMaxima ==
    last.sys = "generate_computer_input" =>
        \A w \in {ChosenWeights} :
            /\ ChosenIsMaximal(w)
            /\ \A c \in MaximaUnder(w) : Index(c) <= Index(last.cell)

\* three or more empty cells shared the maximum weight on Hard, and the
\* selector returned one that is not the first of them
C13_Witness ==
    /\ ChoseOnHard
    /\ Cardinality(Maxima) >= 3
    /\ \E c \in Maxima : Index(c) < Index(last.cell)

\* the order in which completed lines are to be preferred
PreferredLines ==
    <<"TopRow", "MiddleRow", "BottomRow", "LeftColumn", "MiddleColumn",
      "RightColumn", "UpDiagonal", "DownDiagonal">>

\* the three cells of `line` hold the same mark
Filled(g, line) ==
    \E mark \in Marks : \A k \in 1..3 : Get(g, LineCells(line)[k]) = mark

\* mark and line of the first filled line in PreferredLines, if any
FirstFilled(g) ==
    IF \A k \in 1..8 : ~Filled(g, PreferredLines[k]) THEN NoWinner
    ELSE LET first == CHOOSE k \in 1..8 :
                         /\ Filled(g, PreferredLines[k])
                         /\ \A j \in 1..(k - 1) : ~Filled(g, PreferredLines[j])
         IN  <<Get(g, LineCells(PreferredLines[first])[1]), PreferredLines[first]>>

\* C14: for every mapping of cells to marks, also with two or more completed
\* lines, determine_winner returns mark and line of the first completed line
\* in the order TopRow, MiddleRow, BottomRow, LeftColumn, MiddleColumn,
\* RightColumn, UpDiagonal, DownDiagonal (None without one), whatever the
\* order in which the hash map iterates.
C14_FirstLineWins ==
    /\ determine_winner(game.marks) = FirstFilled(game)
    /\ WinnersFrom(game.marks, 1) = {FirstFilled(game)}

\* a mapping where X fills BottomRow and O fills TopRow: the winner is O on
\* TopRow
C14_Witness ==
    /\ Filled(game, "TopRow") /\ Get(game, "TopLeft") = "O"
    /\ Filled(game, "BottomRow") /\ Get(game, "BottomLeft") = "X"
    /\ game.winner = <<"O", "TopRow">>

\* the lines that hold three identical marks
FilledLines(g) == {line \in Lines : Filled(g, line)}

\* the mark a filled line holds
MarkOn(g, line) == Get(g, LineCells(line)[1])

\* the cells of a line, as a set
CellsOf(line) == {LineCells(line)[k] : k \in 1..3}

\* C15 as stated: in every state of a game of alternating write-once moves
\* that stops when over, at most one line is filled with three identical marks.
C15_AtMostOneLine == Cardinality(FilledLines(game)) <= 1

\* C15 as amended: in every state of a game of alternating write-once moves
\* that stops when over there is no filled line while the game is not over,
\* and at most two once it is; a single move completes one or two lines, never
\* more; two filled lines hold the same mark and cross in one cell.
C15_FilledLinesCross ==
    /\ Cardinality(FilledLines(game)) <= 2
    /\ ~game.over => FilledLines(game) = {}
    /\ \A l1, l2 \in FilledLines(game) :
          l1 # l2 => /\ MarkOn(game, l1) = MarkOn(game, l2)
                     /\ Cardinality(CellsOf(l1) \cap CellsOf(l2)) = 1

\* X's fifth mark completed two lines at once
C15_Witness ==
    /\ last.sys = "capture_input" /\ last.outcome = "accepted" /\ last.mark = "X"
    /\ Cardinality(FilledLines(game)) = 2
    /\ OccupiedCount(game) = 9

\* C16: capture_input runs, and so makes a mark, only while the game state
\* is XTurn or OTurn, and in no reachable step does it end in one of its two
\* unreachable! arms: not in the frame of the final move, whose transition to
\* GameOver is still pending, nor after "play again" or "back to menu".
C16_NeverUnreachable ==
    last.sys = "capture_input" =>
        /\ game_state \in {"XTurn", "OTurn"}
        /\ last.outcome # "unreachable"

\* O made the final, winning mark: the game is over, the state is still OTurn
\* and GameOver is asked for
C16_Witness ==
    /\ last.sys = "capture_input" /\ last.outcome = "accepted" /\ last.mark = "O"
    /\ game.over /\ game.winner # NoWinner
    /\ game_state = "OTurn" /\ next_game_state = "GameOver"

\* the selector ran on Easy
ChoseOnEasy == last.sys = "generate_computer_input" /\ last.by = "Easy"

\* C17: for every board and computer mark the weight of each cell on Easy is
\* the negation of its weight on Hard, and the cell returned on Easy has the
\* minimum Hard weight among the empty cells.
C17_EasyInvertsHard ==
    ChoseOnEasy =>
        \A scale \in Scales("Hard") :
            \A easy \in {ChosenWeights}, hard \in {Weights(game, last.mark, scale)} :
                /\ \A i \in 1..9 : easy[i] = -hard[i]
                /\ last.cell \in Cells /\ Get(game, last.cell) = None
                /\ \A c \in Cells :
                      Get(game, c) = None => hard[Index(last.cell)] <= hard[Index(c)]

\* on Easy the selector passed over a cell that wins at once
C17_Witness ==
    /\ ChoseOnEasy
    /\ \E c \in Cells : CompletesTwo(game, last.mark, c)
    /\ ~CompletesTwo(game, last.mark, last.cell)

\* the selector ran on Medium
ChoseOnMedium == last.sys = "generate_computer_input" /\ last.by = "Medium"

\* the cells the selector returns on difficulty `d` for the board and the
\* computer mark of its last call
ChoiceOn(d) == {generate_computer_input(game, last.mark, scale) : scale \in Scales(d)}

\* C18: for every board and computer mark the cell returned on Medium is the
\* cell returned on Hard or the cell returned on Easy for that board and mark,
\* never a third one.
C18_MediumIsHardOrEasy ==
    ChoseOnMedium => last.cell \in ChoiceOn("Hard") \cup ChoiceOn("Easy")

\* on a board where Hard and Easy return different cells Medium returned
\* the cell of Easy
C18_Witness ==
    /\ ChoseOnMedium
    /\ last.cell \in ChoiceOn("Easy")
    /\ last.cell \notin ChoiceOn("Hard")
    /\ OccupiedCount(game) <= 6

\* the geometric centre of a cell, <<x, y>>, for a grid spacing of 250
Centre(cell) ==
    <<ColumnPosition(CellColumn(cell)) * 250, RowPosition(CellRow(cell)) * 250>>

\* C19: Cell::hit at the geometric centre of each of the nine cells,
\* (column.position() * 250, row.position() * 250), returns that cell; the
\* larger y is Top and the larger x is Right.
C19_CentreHitsCell ==
    last.sys = "Cell::hit" =>
        /\ \A cell \in Cells : last.outcome = Centre(cell) => last.cell = cell
        /\ last.outcome = <<-250, 250>> => last.cell = "TopLeft"
        /\ last.outcome = <<250, 250>> => last.cell = "TopRight"
        /\ last.outcome = <<-250, -250>> => last.cell = "BottomLeft"
        /\ last.outcome = <<250, -250>> => last.cell = "BottomRight"
        /\ last.outcome = <<0, 0>> => last.cell = "MiddleMiddle"

\* the centre of TopLeft, left of and above the origin, was hit
C19_Witness ==
    /\ last.sys = "Cell::hit"
    /\ last.outcome = Centre("TopLeft") /\ last.outcome = <<-250, 250>>
    /\ last.cell = "TopLeft"

\* the three intervals of an axis for a grid spacing of 250, lowest first, each
\* as <<lower end, upper end>>
Intervals == <<<<-375, -125>>, <<-125, 125>>, <<125, 375>>>>

\* the variant of `variants` (lowest first) whose interval holds `v`
VariantHolding(variants, v) ==
    IF v < -125 THEN variants[1] ELSE IF v < 125 THEN variants[2] ELSE variants[3]

\* C20: on each axis a coordinate lies in the i-th range exactly if it is at
\* or above the lower end and below the upper end of [-375,-125), [-125,125),
\* [125,375), so in at most one of them; Cell::hit returns None exactly if x or
\* y lies outside [-375, 375), and else the one cell whose row holds y and
\* whose column holds x.
C20_Partition ==
    last.sys = "Cell::hit" =>
        LET x == last.outcome[1]
            y == last.outcome[2]
        IN  /\ \A v \in {x, y} :
                  /\ Cardinality({i \in 1..3 : in_range(i, v)}) <= 1
                  /\ \A i \in 1..3 :
                        in_range(i, v) <=> (Intervals[i][1] <= v /\ v < Intervals[i][2])
            /\ last.cell = None <=> (x < -375 \/ x >= 375 \/ y < -375 \/ y >= 375)
            /\ last.cell # None =>
                  /\ last.cell \in Cells
                  /\ CellRow(last.cell) = VariantHolding(<<"Bottom", "Middle", "Top">>, y)
                  /\ CellColumn(last.cell) = VariantHolding(<<"Left", "Middle", "Right">>, x)

\* a position on the lower edge of the middle column and just below the upper
\* edge of the board hit TopMiddle
C20_Witness ==
    /\ last.sys = "Cell::hit"
    /\ last.outcome = <<-125, 374>>
    /\ last.cell = "TopMiddle"

\* a position on the upper edge of the board missed it
C20_WitnessMiss ==
    /\ last.sys = "Cell::hit"
    /\ last.outcome = <<0, 375>>
    /\ last.cell = None

\* the mark the human plays in one-player mode
HumanPlays == IF human_mark = "HumanX" THEN "X" ELSE "O"

\* a step of capture_input on the computer's turn in one-player mode reads no
\* click; a mark made by capture_input is the current player's, on a cell that
\* was empty; in one-player mode it comes from a click exactly if it is the
\* human's mark and else from generate_computer_input; in two-player mode it
\* always comes from a click
C21_Step ==
    /\ (/\ last'.sys = "capture_input"
        /\ game_mode = "OnePlayer" /\ current_player # HumanPlays)
          => last'.by = "computer"
    /\ AcceptedMove =>
          /\ last'.mark = current_player
          /\ \E c \in Cells \ DOMAIN game.marks :
                game'.marks = Insert(game.marks, c, current_player)
          /\ game_mode = "TwoPlayers" => last'.by = "human"
          /\ game_mode = "OnePlayer" =>
                (last'.by = "human" <=> current_player = HumanPlays)
          /\ last'.by \in {"human", "computer"}

\* C21: in one-player mode no click is read on the computer's turn, every
\* mark of the human's kind is placed by a click and every mark of the
\* computer's kind by generate_computer_input; in two-player mode every mark
\* is placed by a click and is the current player's mark.
C21_InputGating == [][C21_Step]_vars

\* the computer, playing X against a human O, made its second mark
C21_Witness ==
    /\ last.sys = "capture_input" /\ last.outcome = "accepted"
    /\ last.by = "computer" /\ last.mark = "X"
    /\ game_mode = "OnePlayer" /\ human_mark = "HumanO"
    /\ CountOf(game, "X") = 2 /\ CountOf(game, "O") = 1

\* capture_input just made a mark for the computer
ComputerMoved ==
    last.sys = "capture_input" /\ last.by = "computer" /\ last.outcome = "accepted"

\* C22: in one-player mode every move of the computer, its first move of a
\* session as X and its first move after "play again" included, is made on a
\* frame where a countdown of 400 ms has finished, the time of the frames of
\* its turn added up.
C22_AlwaysThinks ==
    ComputerMoved =>
        /\ computer_thinking_time.finished
        /\ computer_thinking_time.duration = 400
        /\ computer_thinking_time.elapsed >= 400

\* what holds of every move of the computer: the timer has finished, and it
\* ran for 400 ms unless no click-reading frame had armed it since the last
\* StateInfo::default(), in which case its duration is zero
ComputerMovedOnFinishedTimer ==
    ComputerMoved =>
        /\ computer_thinking_time.finished
        /\ computer_thinking_time.elapsed = computer_thinking_time.duration
        /\ computer_thinking_time.duration \in {0, 400}
        /\ computer_thinking_time.duration = 0 => OccupiedCount(game) = 1

\* the computer, playing X, made the first mark of a session with a timer of
\* zero duration
C22_Witness ==
    /\ ComputerMoved /\ last.mark = "X"
    /\ OccupiedCount(game) = 1
    /\ computer_thinking_time.duration = 0

\* a step that enters AppState::Game leaves XTurn entered or asked for; the
\* first turn state entered from GameNotInProgress or GameOver is XTurn, in
\* AppState::Game, with the board empty, no winner, over false and X to play
C23_Step ==
    /\ (app_state # "Game" /\ app_state' = "Game")
          => (game_state' = "XTurn" \/ next_game_state' = "XTurn")
    /\ (game_state \in {"GameNotInProgress", "GameOver"}
        /\ game_state' \in {"XTurn", "OTurn"})
          => /\ game_state' = "XTurn"
             /\ app_state' = "Game"
             /\ game' = GameDefault
             /\ current_player' = "X"

\* outside AppState::Game the game state is GameNotInProgress with an empty
\* board; in AppState::Game it is GameNotInProgress only until the XTurn that
\* start_game asked for is entered, or once "back to menu" has asked for Menu
C23_NotInProgress ==
    /\ app_state # "Game" =>
          /\ game_state = "GameNotInProgress"
          /\ game = GameDefault /\ current_player = "X"
    /\ (app_state = "Game" /\ game_state = "GameNotInProgress")
          => (next_game_state = "XTurn" /\ game = GameDefault /\ current_player = "X")

\* C23: every session start, by entering AppState::Game from the splash
\* screen or the menu or by "play again", begins in XTurn with an empty board,
\* no winner, over false and current player X; GameNotInProgress is the state
\* before the first session and between "back to menu" and the next start.
C23_SessionStart == [][C23_Step]_vars /\ []C23_NotInProgress

\* a one-player session has just begun: the menu was visited, so an earlier
\* session ended with "back to menu"
C23_Witness ==
    /\ last.sys = "StateTransition"
    /\ app_state = "Game" /\ game_state = "XTurn" /\ next_game_state = None
    /\ game_mode = "OnePlayer"
    /\ game = GameDefault /\ current_player = "X"

\* the moves of the scenario of C24, in order
ScenarioMoves ==
    <<[cell |-> "TopLeft", mark |-> "X"], [cell |-> "MiddleMiddle", mark |-> "O"],
      [cell |-> "TopMiddle", mark |-> "X"], [cell |-> "BottomRight", mark |-> "O"],
      [cell |-> "TopRight", mark |-> "X"]>>

\* the marks on the board after the first k moves of the scenario
ScenarioMarks(k) ==
    [c \in {ScenarioMoves[j].cell : j \in 1..k} |->
        IF c \in {"TopLeft", "TopMiddle", "TopRight"} THEN "X" ELSE "O"]

\* a click is being read: the schedule is Update in a turn state and the
\* current player is not the computer
ClickIsRead ==
    /\ schedule = "Update" /\ game_state \in {"XTurn", "OTurn"}
    /\ ~(game_mode = "OnePlayer" /\ current_player # HumanPlays)

\* on the board of the first k - 1 moves of the scenario the game is not
\* over, and a click on the centre of the k-th cell can be accepted there; on
\* the board of all five the winner is X on TopRow, the game is over and
\* GameOver is asked for or entered
C24_Boards ==
    /\ \A k \in 1..5 :
          game.marks = ScenarioMarks(k - 1) =>
             /\ ~game.over /\ game.winner = NoWinner
             /\ ClickIsRead =>
                   ENABLED (/\ capture_input
                            /\ last'.click = Centre(ScenarioMoves[k].cell)
                            /\ last'.outcome = "accepted")
    /\ game.marks = ScenarioMarks(5) =>
          /\ game.winner = <<"X", "TopRow">> /\ game.over
          /\ next_game_state = "GameOver" \/ game_state = "GameOver"

\* a click on the centre of the k-th cell of the scenario, accepted on the
\* board of the first k - 1 moves, makes the k-th mark and no other, and asks
\* for the other turn, or for GameOver after the fifth
C24_Step ==
    \A k \in 1..5 :
        (/\ game.marks = ScenarioMarks(k - 1)
         /\ last'.sys = "capture_input"
         /\ last'.click = Centre(ScenarioMoves[k].cell))
           => /\ game'.marks = ScenarioMarks(k)
              /\ last'.mark = ScenarioMoves[k].mark
              /\ last'.cell = ScenarioMoves[k].cell
              /\ next_game_state' =
                    (IF k = 5 THEN "GameOver"
                     ELSE TurnStateOf(ScenarioMoves[k + 1].mark))

\* C24: from a fresh session the moves X:TopLeft, O:MiddleMiddle,
\* X:TopMiddle, O:BottomRight, X:TopRight are accepted in that order, the game
\* is not over before the fifth, and after it winner() is Some((X, TopRow)),
\* over() is true and the game state becomes GameOver.
C24_Scenario == [][C24_Step]_vars /\ []C24_Boards

\* GameOver was entered after X's click on TopRight completed the scenario
C24_Witness ==
    /\ game.marks = ScenarioMarks(5)
    /\ game_state = "GameOver" /\ last.sys = "StateTransition"
    /\ game_mode = "TwoPlayers"

\* the board with X on MiddleMiddle and nothing else
CentreOnly == [c \in {"MiddleMiddle"} |-> "X"]

\* on the empty board, when X's click is read, a click at (0, 0) can be
\* accepted; once the board with X on the centre alone has been through
\* StateTransition it is O's turn
C25_Boards ==
    /\ (game = GameDefault /\ ClickIsRead /\ current_player = "X")
          => ENABLED (/\ capture_input
                      /\ last'.click = <<0, 0>>
                      /\ last'.outcome = "accepted")
    /\ (game.marks = CentreOnly /\ schedule = "Update")
          => (game_state = "OTurn" /\ current_player = "O" /\ ~game.over)

\* a click at (0, 0) accepted on the empty board puts X on MiddleMiddle and on
\* no other cell, leaves the game not over and asks for OTurn
C25_Step ==
    (/\ game.marks = EmptyMarks
     /\ last'.sys = "capture_input"
     /\ last'.click = <<0, 0>>)
       => /\ Get(game', "MiddleMiddle") = "X"
          /\ \A c \in Cells \ {"MiddleMiddle"} : Get(game', c) = None
          /\ last'.mark = "X" /\ last'.by = "human"
          /\ ~game'.over /\ game'.winner = NoWinner
          /\ next_game_state' = "OTurn"

\* C25: on the empty board at the start of a session with the human playing
\* X, a click at (0, 0), grid spacing 250, is accepted: MiddleMiddle holds X,
\* every other cell stays empty, the game is not over and the turn becomes O.
C25_CentreClick == [][C25_Step]_vars /\ []C25_Boards

\* in one-player mode the human, playing X, has just clicked (0, 0) on the
\* empty board
C25_Witness ==
    /\ last.sys = "capture_input" /\ last.click = <<0, 0>>
    /\ game_mode = "OnePlayer" /\ human_mark = "HumanX"
    /\ game.marks = CentreOnly
    /\ next_game_state = "OTurn"

\* what case (3) adds to weights[i] in the selector's last call
CentreBonus(i) == Case3After(game, last.outcome, i, Len(LineVariants))

\* C26: on every board with MiddleMiddle empty, case (3) adds 2 * scale in
\* total to the weight of MiddleMiddle in one call of generate_computer_input
\* and nothing to any other cell; on the empty board on Hard the weight of
\* MiddleMiddle is 2.
C26_CentreAddsTwo ==
    (last.sys = "generate_computer_input" /\ Get(game, "MiddleMiddle") = None) =>
        /\ CentreBonus(Index("MiddleMiddle")) = 2 * last.outcome
        /\ \A c \in Cells \ {"MiddleMiddle"} : CentreBonus(Index(c)) = 0
        /\ (game = GameDefault /\ last.by = "Hard")
              => ChosenWeights[Index("MiddleMiddle")] = 2

\* what holds instead: case (3) adds 2 * scale once for each of the four
\* lines through an empty MiddleMiddle, 8 * scale in total, and nothing to any
\* other cell and nothing when MiddleMiddle is occupied
CentreAddsEight ==
    last.sys = "generate_computer_input" =>
        /\ CentreBonus(Index("MiddleMiddle")) =
              (IF Get(game, "MiddleMiddle") = None THEN 8 * last.outcome ELSE 0)
        /\ \A c \in Cells \ {"MiddleMiddle"} : CentreBonus(Index(c)) = 0
        /\ (game = GameDefault /\ last.by = "Hard")
              => ChosenWeights[Index("MiddleMiddle")] = 8

\* on the empty board on Hard the centre weighed 8 and was returned
C26_Witness ==
    /\ ChoseOnHard /\ game = GameDefault
    /\ ChosenWeights[Index("MiddleMiddle")] = 8
    /\ last.cell = "MiddleMiddle"

\* the board of `g` with the cells in `removed` emptied
Without(g, removed) ==
    [marks |-> [c \in (DOMAIN g.marks) \ removed |-> g.marks[c]]]

\* in one-player mode on Hard the human's click has just won the game
HumanBeatHard ==
    /\ last.sys = "capture_input" /\ last.by = "human" /\ last.outcome = "accepted"
    /\ game_mode = "OnePlayer" /\ difficulty = "Hard"
    /\ game.winner # NoWinner

\* 'the human never wins against Hard'
HumanNeverBeatsHard == ~HumanBeatHard

\* C27: Hard can be beaten: in one-player mode on Hard a game won by the
\* human is reachable. It is won only by a fork: the computer's mark before
\* the winning click sits on a cell that blocked one human line of two while
\* the winning cell completed another, and the computer had no cell to win on.
C27_HardLosesOnlyToFork ==
    HumanBeatHard =>
        /\ game.winner[1] = HumanPlays
        /\ \E b \in Cells :
              /\ Get(game, b) = OtherMark(HumanPlays)
              /\ \A before \in {Without(game, {b, last.cell})} :
                    /\ CompletesTwo(before, HumanPlays, b)
                    /\ CompletesTwo(before, HumanPlays, last.cell)
                    /\ \A c \in Cells : ~CompletesTwo(before, OtherMark(HumanPlays), c)

\* the human, playing X, beat the computer on Hard
C27_Witness ==
    /\ HumanBeatHard
    /\ human_mark = "HumanX" /\ game.winner[1] = "X"

\* a mark made by capture_input sits on the cell the step chose, which is the
\* cell its click hit when a click was read; the cell was empty and now holds
\* the current player's mark, the other eight cells are as before and one
\* more cell is occupied
C28_Step ==
    AcceptedMove =>
        /\ last'.cell \in Cells
        /\ last'.click # NoClick => hit(last'.click) = last'.cell
        /\ Get(game, last'.cell) = None
        /\ Get(game', last'.cell) = current_player
        /\ \A c \in Cells \ {last'.cell} : Get(game', c) = Get(game, c)
        /\ OccupiedCount(game') = OccupiedCount(game) + 1

\* C28: an accepted move changes exactly one cell: it sets the targeted,
\* previously empty cell to the current player's mark, raises the occupied
\* count by one and leaves the other eight cells unchanged.
C28_OneCellPerMove == [][C28_Step]_vars

\* O's click on BottomLeft was accepted on a board that already held six marks
C28_Witness ==
    /\ last.sys = "capture_input" /\ last.outcome = "accepted"
    /\ last.mark = "O" /\ last.cell = "BottomLeft" /\ last.click = <<-250, -250>>
    /\ Get(game, "BottomLeft") = "O"
    /\ OccupiedCount(game) = 6

\* the number of X marks minus the number of O marks
MarkLead(g) == CountOf(g, "X") - CountOf(g, "O")

\* in every state X leads by 0 or 1; in an Update schedule, where
\* capture_input runs, X leads by 0 in XTurn and by 1 in OTurn
C29_Counts ==
    /\ MarkLead(game) \in {0, 1}
    /\ (schedule = "Update" /\ game_state = "XTurn") => MarkLead(game) = 0
    /\ (schedule = "Update" /\ game_state = "OTurn") => MarkLead(game) = 1

\* a step of capture_input starts from a lead of 0 in XTurn and of 1 in OTurn
C29_Step ==
    last'.sys = "capture_input" =>
        /\ game_state = "XTurn" => MarkLead(game) = 0
        /\ game_state = "OTurn" => MarkLead(game) = 1

\* C29: in every reachable state the number of X marks minus the number of O
\* marks is 0 or 1; whenever capture_input runs in XTurn the counts are equal,
\* and whenever it runs in OTurn there is exactly one more X than O.
C29_MarkCount == []C29_Counts /\ [][C29_Step]_vars

\* capture_input ran in OTurn on a board of four X and three O and turned
\* the click down
C29_Witness ==
    /\ last.sys = "capture_input" /\ last.outcome \in {"occupied", "no_cell"}
    /\ game_state = "OTurn"
    /\ CountOf(game, "X") = 4 /\ CountOf(game, "O") = 3

\* the text the overlay is to show for the game `g`
ResultText(g) ==
    IF \A line \in Lines : ~Filled(g, line) THEN "It's a tie!"
    ELSE IF \E line \in Lines : Filled(g, line) /\ MarkOn(g, line) = "X" THEN "X wins!"
    ELSE "O wins!"

\* a game with a winner (M, L) is over, L holds M on its three cells and the
\* board holds five marks or more
C30_Winner ==
    game.winner # NoWinner =>
        /\ game.over
        /\ \A k \in 1..3 : Get(game, LineCells(game.winner[2])[k]) = game.winner[1]
        /\ OccupiedCount(game) >= 5

\* the winner's mark is the mark of the move that ended the game; the step
\* that enters GameOver announces the result of the final board
C30_Step ==
    /\ (AcceptedMove /\ game'.winner # NoWinner)
          => (game'.winner[1] = current_player /\ game'.winner[1] = last'.mark)
    /\ (game_state # "GameOver" /\ game_state' = "GameOver")
          => /\ game'.over /\ game' = game
             /\ last'.outcome = ResultText(game')
             /\ game'.winner = NoWinner => last'.outcome = "It's a tie!"
             /\ game'.winner # NoWinner =>
                   last'.outcome = (IF game'.winner[1] = "X" THEN "X wins!" ELSE "O wins!")

\* C30: whenever a game ends with winner() = Some((M, L)), M is the mark of
\* the player who made the last accepted move, the three cells of L hold M,
\* the board holds at least five marks, and what is announced on entering
\* GameOver, "M wins!" or a tie, is winner() of the final board.
C30_WinnerIsLastMover == []C30_Winner /\ [][C30_Step]_vars

\* GameOver was entered announcing that O wins, O having three marks only
C30_Witness ==
    /\ last.sys = "StateTransition" /\ last.outcome = "O wins!"
    /\ game_state = "GameOver"
    /\ game.winner # NoWinner /\ game.winner[1] = "O"
    /\ CountOf(game, "O") = 3

\* a game that is over holds five to nine marks, GameOver is entered or asked
\* for only with such a game, and no choice of the computer is turned down
C31_Bounds ==
    /\ game.over => OccupiedCount(game) \in 5..9
    /\ (game_state = "GameOver" \/ next_game_state = "GameOver")
          => (game.over \/ (last.sys = "game_over_buttons" /\ game = GameDefault))
    /\ ComputerNeverRejected

\* a turn state
InTurn == game_state \in {"XTurn", "OTurn"}

\* capture_input is about to run for the computer
ComputerToMove ==
    /\ InTurn /\ schedule = "Update"
    /\ game_mode = "OnePlayer" /\ current_player # HumanPlays

\* capture_input is about to run for a human
HumanToMove ==
    /\ InTurn /\ schedule = "Update"
    /\ ~(game_mode = "OnePlayer" /\ current_player # HumanPlays)

\* on each of their turns in a game that is not over the human comes to
\* click an empty cell, and on each turn of the computer in such a game a
\* frame comes in which the thinking timer has finished
PlayGoesOn ==
    /\ (HumanToMove /\ ~game.over) ~>
          (last.sys = "capture_input" /\ last.by = "human" /\ last.outcome = "accepted")
    /\ (ComputerToMove /\ ~game.over) ~>
          (last.sys = "capture_input" /\ computer_thinking_time.finished)

\* C31: every session reaches GameOver after at least 5 and at most 9
\* accepted moves; when frames keep running and the human keeps clicking empty
\* cells on their turns, every turn state leads to GameOver, and a turn of the
\* computer ends with an accepted move, its choice never being turned down.
C31_Termination ==
    /\ []C31_Bounds
    /\ PlayGoesOn =>
          /\ InTurn ~> (game_state = "GameOver")
          /\ ComputerToMove ~> ComputerMoved

\* GameOver was entered after nine marks, the last of them the computer's
C31_Witness ==
    /\ game_state = "GameOver" /\ last.sys = "StateTransition"
    /\ OccupiedCount(game) = 9
    /\ game_mode = "OnePlayer" /\ human_mark = "HumanO"

\* the mark of a turn state
MarkOfTurn(state) == IF state = "XTurn" THEN "X" ELSE "O"

\* a step of capture_input starts in a turn state whose mark is the current
\* player, and a mark it makes is the mark of that turn state
C32_Step ==
    last'.sys = "capture_input" =>
        /\ game_state \in {"XTurn", "OTurn"}
        /\ current_player = MarkOfTurn(game_state)
        /\ AcceptedMove =>
              /\ last'.mark = MarkOfTurn(game_state)
              /\ \E c \in Cells \ DOMAIN game.marks :
                    game'.marks = Insert(game.marks, c, MarkOfTurn(game_state))

\* whenever capture_input is about to run, the current player is the mark of
\* the turn state, whatever step entered that state
C32_Ready ==
    (schedule = "Update" /\ RunsCaptureInput(game_state))
        => current_player = MarkOfTurn(game_state)

\* C32: every time capture_input runs in XTurn the current player is X and in
\* OTurn it is O, on the first frame after a toggle, after "play again" and
\* after a new session start alike, and the mark written is the mark of the
\* current turn state.
C32_PlayerAgreesWithState == [][C32_Step]_vars /\ []C32_Ready

\* the computer's first O was written in OTurn, on the frames after the toggle
C32_Witness ==
    /\ last.sys = "capture_input" /\ last.outcome = "accepted"
    /\ last.mark = "O" /\ last.by = "computer"
    /\ game_state = "OTurn" /\ next_game_state = "XTurn"
    /\ OccupiedCount(game) = 2

\* the lines that end in `cell`
LinesEndingIn(cell) ==
    {line \in Lines : LineCells(line)[1] = cell \/ LineCells(line)[3] = cell}

Selected(i) == {c \in Cells : Arrangement(i, c)}

\* C34: for each entry (filter, line) of WINNING_ARRANGEMENTS the cells the
\* filter keeps are exactly the 3 distinct cells of line.cells(); the filter
\* column.position() == row.position() keeps exactly BottomLeft, MiddleMiddle
\* and TopRight, the cells of UpDiagonal; the 8 entries cover the 8 Line
\* variants once each; the line stored with a winner holds the winner's mark
\* on all its cells.
C34_ArrangementsAgree ==
    /\ Len(ArrangementLines) = 8
    /\ \A i \in 1..8 :
          /\ Selected(i) = CellsOf(ArrangementLines[i])
          /\ Cardinality(Selected(i)) = 3
    /\ \A line \in Lines :
          Cardinality({i \in 1..8 : ArrangementLines[i] = line}) = 1
    /\ Selected(7) = {"BottomLeft", "MiddleMiddle", "TopRight"}
    /\ ArrangementLines[7] = "UpDiagonal"
    /\ game.winner # NoWinner =>
          \A c \in CellsOf(game.winner[2]) : Get(game, c) = game.winner[1]

\* X has won on UpDiagonal, found by the position filter, with DownDiagonal
\* not filled
C34_Witness ==
    /\ game.winner = <<"X", "UpDiagonal">>
    /\ Get(game, "BottomLeft") = "X" /\ Get(game, "TopRight") = "X"
    /\ Get(game, "TopLeft") # "X"
    /\ last.sys = "Game::set"

\* a step of game_over_buttons puts the StateInfo back to its default and
\* leaves the three settings and both current states as they are; "play again"
\* asks for XTurn only and "back to menu" for GameNotInProgress and Menu
C35_Step ==
    last'.sys = "game_over_buttons" =>
        /\ game' = GameDefault
        /\ current_player' = "X"
        /\ computer_thinking_time' = TimerDefault
        /\ game_mode' = game_mode
        /\ human_mark' = human_mark
        /\ difficulty' = difficulty
        /\ app_state' = app_state /\ game_state' = game_state
        /\ \/ next_game_state' = "XTurn" /\ next_app_state' = next_app_state
           \/ next_game_state' = "GameNotInProgress" /\ next_app_state' = "Menu"

\* the settings change in the menu only: from the start of a session to the
\* return to the menu, replays included, they stay as they were
C35_SettingsKept ==
    app_state # "Menu" =>
        /\ game_mode' = game_mode
        /\ human_mark' = human_mark
        /\ difficulty' = difficulty

\* C35: "play again" and "back to menu" reset only the StateInfo (board,
\* winner, over, current player, thinking timer): game mode, human mark and
\* difficulty are unchanged, so a replay is in the same mode, mark and
\* difficulty.
C35_ReplayKeepsSettings == [][C35_Step /\ C35_SettingsKept]_vars

\* "play again" was pressed after a one-player game on Medium with the human as O
C35_Witness ==
    /\ last.sys = "game_over_buttons" /\ next_game_state = "XTurn"
    /\ game = GameDefault /\ game_state = "GameOver"
    /\ game_mode = "OnePlayer" /\ human_mark = "HumanO" /\ difficulty = "Medium"

\* the values of an i8
I8 == -128..127

\* C36: for every assignment of marks to the 9 cells, either computer mark and
\* scale -1 or +1, every intermediate and the final value of each of the 9
\* weights is an i8, of absolute value at most 88, so that no addition
\* overflows.
C36_NoOverflow ==
    \A computer \in Marks : \A scale \in {-1, 1} : \A i \in 1..9 :
        \A values \in {ValuesFrom(game, computer, scale, i, 1, 0)} :
            /\ \A w \in values : w \in I8 /\ w <= 88 /\ -w <= 88
            /\ WeightAfter(game, computer, scale, i, Len(LineVariants)) \in values

\* the eight cells around an empty centre hold X: for computer X the weight of
\* MiddleMiddle ends at 88 on scale 1 and at -88 on scale -1
C36_Witness ==
    /\ DOMAIN game.marks = Cells \ {"MiddleMiddle"}
    /\ \A c \in Cells \ {"MiddleMiddle"} : Get(game, c) = "X"
    /\ Weights(game, "X", 1)[Index("MiddleMiddle")] = 88
    /\ Weights(game, "X", -1)[Index("MiddleMiddle")] = -88

\* a press of a difficulty button writes the difficulty of the button and
\* nothing else: no state is asked for or entered and the game mode, the
\* human mark and the StateInfo stay as they are
C37_Difficulty ==
    /\ \A d \in {"Easy", "Medium", "Hard"} :
          MenuUpdateDifficulty(d) => difficulty' = d
    /\ last'.sys = "menu::update_difficulty" =>
          /\ game_mode' = game_mode /\ human_mark' = human_mark
          /\ app_state' = app_state /\ next_app_state' = next_app_state
          /\ game_state' = game_state /\ next_game_state' = next_game_state
          /\ next_app_state' = None /\ next_game_state' = None
          /\ game_state' = "GameNotInProgress"
          /\ game' = game /\ current_player' = current_player
          /\ computer_thinking_time' = computer_thinking_time

\* a press of "One Player" / "Two Players" writes the game mode of the button
\* and asks for AppState::Game, still in the menu; the human mark and the
\* difficulty stay as they are
C37_Start ==
    /\ \A mode \in {"OnePlayer", "TwoPlayers"} :
          MenuStart(mode) => game_mode' = mode
    /\ last'.sys = "menu::start" =>
          /\ next_app_state' = "Game"
          /\ app_state' = "Menu" /\ game_state' = "GameNotInProgress"
          /\ human_mark' = human_mark /\ difficulty' = difficulty

\* the transition asked for by the menu enters AppState::Game in the next
\* StateTransition, with XTurn entered or asked for, an empty board and X to play
C37_Session ==
    (last.sys = "menu::start" /\ last'.sys = "StateTransition") =>
        /\ app_state' = "Game"
        /\ game_state' = "XTurn" \/ next_game_state' = "XTurn"
        /\ game_state' \in {"XTurn", "GameNotInProgress"}
        /\ game' = GameDefault /\ current_player' = "X"
        /\ UNCHANGED settings

\* C37: pressing a difficulty button sets the difficulty to that value and
\* neither starts a game nor changes the game mode; pressing "One Player" /
\* "Two Players" sets the game mode and asks for AppState::Game, which starts
\* the session in XTurn.
C37_MenuSelections == [][C37_Difficulty /\ C37_Start /\ C37_Session]_vars

\* after Easy was selected, "One Player" was pressed
C37_Witness ==
    /\ last.sys = "menu::start" /\ next_app_state = "Game" /\ app_state = "Menu"
    /\ game_mode = "OnePlayer" /\ difficulty = "Easy"

\* the variants of Row and of Column
RowVariants == {Rows[i] : i \in 1..Len(Rows)}

ColumnVariants == {Columns[i] : i \in 1..Len(Columns)}

\* C38: a cell is its (row, column) pair: Cell::from(c.row(), c.column()) is c
\* for each cell, Cell::from(r, k) has row r and column k for each pair, and
\* the index used for the weight array is the cell's position in
\* Cell::variants(), so that the indices kept by the filter over
\* Cell::variants() are the weight indices of the empty cells.
C38_CellIdentity ==
    /\ \A c \in Cells : CellFrom(CellRow(c), CellColumn(c)) = c
    /\ \A r \in RowVariants, k \in ColumnVariants :
          /\ CellFrom(r, k) \in Cells
          /\ CellRow(CellFrom(r, k)) = r
          /\ CellColumn(CellFrom(r, k)) = k
    /\ Cardinality(Cells) = Cardinality(RowVariants) * Cardinality(ColumnVariants)
    /\ \A c \in Cells : CellVariants[Index(c)] = c
    /\ \A i \in 1..Len(CellVariants) : Index(CellVariants[i]) = i
    /\ \A candidates \in {Candidates(game)} :
          {candidates[k] : k \in 1..Len(candidates)} =
              {Index(c) : c \in {e \in Cells : Get(game, e) = None}}

\* on a board whose only empty cells are TopRight and MiddleLeft the filter
\* keeps the third and the fourth weight
C38_Witness ==
    /\ {c \in Cells : Get(game, c) = None} = {"TopRight", "MiddleLeft"}
    /\ Candidates(game) = <<3, 4>>
    /\ Index("TopRight") = 3 /\ Index("MiddleLeft") = 4
    /\ CellFrom("Top", "Right") = "TopRight"

====
